---------------------------- MODULE Spec2Model ----------------------------
(***************************************************************************)
(* UFuncDispatcher of numbapro/_minidispatch.pyx as a state machine: one   *)
(* dispatch call, from __call__ through run_ufunc and the recursive        *)
(* run_higher_dimensional to the return to the caller.                     *)
(*                                                                         *)
(* Pointers are integers (byte addresses); a stride pointer strides[j] is  *)
(* the number of entries it is offset into operand j's row of strides_p.   *)
(* Sequences are 1-based, so C index d is entry d + 1.                     *)
(***************************************************************************)
EXTENDS Integers, Sequences, FiniteSets, TLC

\* Bounds of the model: the largest operand dimensionality, and the largest
\* extent an operand declares (extents are drawn from {0, 1, MaxExtent}).
MaxNdim == 4
MaxExtent == 2

VARIABLES
    nin,              \* self.nin: the registered arity
    args,             \* the positional operands of the call
    kwout,            \* kwds['out'] as the caller passed it (NoArray: absent)
    pc,               \* position of the call
    err,              \* the exception leaving the call ("none": no exception)
    result,           \* what __call__ returned to its caller (NoArray: None)
    order,            \* _internal.get_arrays_ordering(args)
    bshape,           \* broadcast.shape
    ndim,             \* broadcast.nd
    out,              \* the local `out` of __call__
    any_broadcasting, \* is_broadcasting(broadcast_args, broadcast)
    contig,           \* the local `contig` of __call__
    function_pointer, \* the selected kernel variant
    arrays,           \* the list run_ufunc builds: out, then the inputs
    shape_p,          \* the unified shape buffer
    strides_p,        \* the stride buffer: one row of ndim strides per operand
    data_pointers,    \* the data-pointer buffer
    strides_args,     \* the stride-pointer buffer (offsets into the rows)
    mallocs,          \* per scratch buffer: how often it was allocated
    frees,            \* per scratch buffer: how often it was freed
    stack,            \* activation records of run_higher_dimensional
    counts,           \* how often np.broadcast, the table, np.empty, the kernel ran
    lastLeaf,         \* the arguments of the latest kernel invocation
    visited,          \* elements processed by all kernel invocations so far
    trace,            \* the arguments of every kernel invocation, in order
    prev              \* what an earlier call on the same dispatcher did

vars == <<nin, args, kwout, pc, err, result, order, bshape, ndim, out,
          any_broadcasting, contig, function_pointer, arrays, shape_p,
          strides_p, data_pointers, strides_args, mallocs, frees, stack,
          counts, lastLeaf, visited, trace, prev>>

callVars == <<order, bshape, ndim, out, any_broadcasting, contig, function_pointer>>
scratchVars == <<arrays, shape_p, strides_p, data_pointers, strides_args>>
execVars == <<stack, lastLeaf, visited, trace>>
inputVars == <<nin, args, kwout, prev>>

-----------------------------------------------------------------------------
(* Arrays *)

Dtypes == {"f8", "i4"}
Layouts == {"C", "F", "S", "Z"}
Extents == {0, 1, MaxExtent}
Shapes == UNION {[1..n -> Extents] : n \in 0..MaxNdim}
Scratch == {"shape_p", "strides_p", "data_pointers", "strides_args"}

NoArray == [dtype |-> "none", shape |-> <<>>, strides |-> <<>>, base |-> 0]

ItemSize(dt) == IF dt = "f8" THEN 8 ELSE 4

RECURSIVE Prod(_)
Prod(s) == IF s = <<>> THEN 1 ELSE Head(s) * Prod(Tail(s))

\* NumPy fills strides treating an extent of 0 as 1.
NZ(s) == [d \in 1..Len(s) |-> IF s[d] = 0 THEN 1 ELSE s[d]]

CStrides(shape, isz) ==
    [d \in 1..Len(shape) |-> isz * Prod(SubSeq(NZ(shape), d + 1, Len(shape)))]

FStrides(shape, isz) ==
    [d \in 1..Len(shape) |-> isz * Prod(SubSeq(NZ(shape), 1, d - 1))]

\* The strides of an array of the given layout: row-major, column-major,
\* every second element of a row-major array, or a scalar repeated (all 0).
LayoutStrides(shape, isz, layout) ==
    CASE layout = "C" -> CStrides(shape, isz)
      [] layout = "F" -> FStrides(shape, isz)
      [] layout = "S" -> [d \in 1..Len(shape) |-> 2 * CStrides(shape, isz)[d]]
      [] OTHER        -> [d \in 1..Len(shape) |-> 0]

BaseOf(k) == 4096 * (k + 1)

MkArray(dt, shape, layout, k) ==
    [dtype |-> dt, shape |-> shape,
     strides |-> LayoutStrides(shape, ItemSize(dt), layout), base |-> BaseOf(k)]

\* Shapes of the further operands of a call, told from the first one's:
\* the same, one leading dimension fewer, or the last extent one larger.
Derive(fs, mode) ==
    IF fs = <<>> \/ mode = "same" THEN fs
    ELSE IF mode = "drop" THEN Tail(fs)
    ELSE [fs EXCEPT ![Len(fs)] = @ + 1]

Modes == {"same", "drop", "inc"}

OutArrays(fs) ==
    {NoArray}
    \cup {MkArray("f8", Derive(fs, m), "C", 0) : m \in Modes}
    \cup {MkArray("f8", fs, "S", 0)}

\* The operands of a call: one input of any layout, or a second, row-major
\* input beside it; the i4 inputs are row-major.
ArgLists(fs) ==
    {<<MkArray("f8", fs, l, 1)>> : l \in Layouts}
    \cup {<<MkArray("i4", fs, "C", 1)>>}
    \cup {<<MkArray("f8", fs, l, 1), MkArray("f8", Derive(fs, m), "C", 2)>> :
            l \in Layouts, m \in Modes}
    \cup {<<MkArray("i4", fs, "C", 1), MkArray("f8", fs, "C", 2)>>}

-----------------------------------------------------------------------------
(* The specialization table *)

\* self.functions: all-f8 signatures of one or two inputs at every
\* dimensionality from 1 on, and the i4 signature at dimensionality 1 only.
Key(types, nd) == [types |-> types, nd |-> nd]

Functions ==
    {Key(t, n) : t \in {<<"f8">>, <<"f8", "f8">>}, n \in 1..MaxNdim}
    \cup {Key(<<"i4">>, 1)}

ResultDtype(key) == key.types[1]

ArgTypes(as) == [k \in 1..Len(as) |-> as[k].dtype]

KeyRegistered_AnyNdim(key) == \E k \in Functions : k.types = key.types

KeyRegistered(key) == key \in Functions

-----------------------------------------------------------------------------
(* np.broadcast *)

Max(S) == CHOOSE x \in S : \A y \in S : y <= x

PadShape(s, n) ==
    [d \in 1..n |-> IF d <= n - Len(s) THEN 1 ELSE s[d - (n - Len(s))]]

BroadcastNd(as) == Max({Len(as[k].shape) : k \in 1..Len(as)})

DimExtents(as, d) ==
    {PadShape(as[k].shape, BroadcastNd(as))[d] : k \in 1..Len(as)}

BroadcastOk_Lax(as) == TRUE

BroadcastOk(as) ==
    \A d \in 1..BroadcastNd(as) : Cardinality(DimExtents(as, d) \ {1}) <= 1

BroadcastShape_First(as) == PadShape(as[1].shape, BroadcastNd(as))

BroadcastShape(as) ==
    [d \in 1..BroadcastNd(as) |->
        IF DimExtents(as, d) \ {1} = {} THEN 1
        ELSE CHOOSE e \in DimExtents(as, d) \ {1} : TRUE]

-----------------------------------------------------------------------------
(* _internal.get_arrays_ordering and is_broadcasting *)

Size(a) == Prod(a.shape)

IsCContig(a) ==
    \/ Size(a) = 0
    \/ \A d \in 1..Len(a.shape) :
          a.shape[d] = 1 \/ a.strides[d] = CStrides(a.shape, ItemSize(a.dtype))[d]

IsFContig(a) ==
    \/ Size(a) = 0
    \/ \A d \in 1..Len(a.shape) :
          a.shape[d] = 1 \/ a.strides[d] = FStrides(a.shape, ItemSize(a.dtype))[d]

IsInnerContig(a) ==
    \/ Len(a.shape) = 0
    \/ a.strides[Len(a.shape)] = ItemSize(a.dtype)

Ops(as) == {as[k] : k \in 1..Len(as)}

get_arrays_ordering(as) ==
    LET allC == \A a \in Ops(as) : IsCContig(a)
        allF == \A a \in Ops(as) : IsFContig(a)
        eachContig == \A a \in Ops(as) : IsCContig(a) \/ IsFContig(a)
        someContig == \E a \in Ops(as) : IsCContig(a) \/ IsFContig(a)
        nC == Cardinality({k \in 1..Len(as) : IsCContig(as[k])})
        nF == Cardinality({k \in 1..Len(as) : IsFContig(as[k])})
    IN  (IF nC >= nF THEN {"ARRAY_C_ORDER"} ELSE {"ARRAY_F_ORDER"})
        \cup (IF allC \/ allF THEN {"ARRAYS_ARE_CONTIG"} ELSE {})
        \cup (IF \A a \in Ops(as) : IsInnerContig(a)
                THEN {"ARRAYS_ARE_INNER_CONTIG"} ELSE {})
        \cup (IF eachContig /\ ~(allC \/ allF)
                THEN {"ARRAYS_ARE_MIXED_CONTIG"} ELSE {})
        \cup (IF someContig /\ ~eachContig
                THEN {"ARRAYS_ARE_MIXED_STRIDED"} ELSE {})

is_broadcasting(as, shape) == \E a \in Ops(as) : a.shape # shape


-----------------------------------------------------------------------------
(* UFuncDispatcher.__call__ *)

NoLeaf == [n |-> 0, dl |-> 0, shape |-> <<>>, dp |-> <<>>, so |-> <<>>,
           idx |-> <<>>, ok |-> TRUE]

\* no earlier call
NoPrev == [set |-> FALSE, function_pointer |-> "none", trace |-> <<>>,
           visited |-> 0]

Init ==
    \E n \in {1, 2}, fs \in Shapes :
      \E as \in ArgLists(fs), o \in OutArrays(fs) :
        /\ nin = n
        /\ args = as
        /\ kwout = o
        /\ pc = "call"
        /\ err = "none"
        /\ result = NoArray
        /\ order = {}
        /\ bshape = <<>>
        /\ ndim = 0
        /\ out = NoArray
        /\ any_broadcasting = FALSE
        /\ contig = FALSE
        /\ function_pointer = "none"
        /\ arrays = <<>>
        /\ shape_p = <<>>
        /\ strides_p = <<>>
        /\ data_pointers = <<>>
        /\ strides_args = <<>>
        /\ mallocs = [b \in Scratch |-> 0]
        /\ frees = [b \in Scratch |-> 0]
        /\ stack = <<>>
        /\ counts = [broadcast |-> 0, lookup |-> 0, empty |-> 0, kernel |-> 0]
        /\ lastLeaf = NoLeaf
        /\ visited = 0
        /\ trace = <<>>
        /\ prev = NoPrev

\* An exception leaves __call__: the call is over, nothing is returned.
Raise(e) ==
    /\ err' = e
    /\ pc' = "done"
    /\ result' = result

ArityOk_AtMost == Len(args) <= nin

ArityOk == Len(args) = nin

\* if len(args) != self.nin: raise TypeError
CheckArity ==
    /\ pc = "call"
    /\ IF ArityOk
         THEN pc' = "broadcast" /\ UNCHANGED <<err, result>>
         ELSE Raise("ArityError")
    /\ UNCHANGED <<inputVars, callVars, scratchVars, execVars, mallocs, frees, counts>>

\* broadcast_args: the inputs, and the output the caller supplied
BroadcastArgs == IF kwout = NoArray THEN args ELSE Append(args, kwout)

\* out = kwds.pop('out'); order = get_arrays_ordering(args);
\* broadcast = np.broadcast(*broadcast_args); ndim = broadcast.nd
Broadcast ==
    /\ pc = "broadcast"
    /\ out' = kwout
    /\ order' = get_arrays_ordering(args)
    /\ counts' = [counts EXCEPT !.broadcast = @ + 1]
    /\ IF BroadcastOk(BroadcastArgs)
         THEN /\ bshape' = BroadcastShape(BroadcastArgs)
              /\ ndim' = BroadcastNd(BroadcastArgs)
              /\ pc' = "lookup"
              /\ UNCHANGED <<err, result>>
         ELSE /\ Raise("ShapeMismatch")
              /\ UNCHANGED <<bshape, ndim>>
    /\ UNCHANGED <<inputVars, any_broadcasting, contig, function_pointer,
                   scratchVars, execVars, mallocs, frees>>

CallKey == Key(ArgTypes(args), ndim)

\* if key not in self.functions: raise ValueError
Lookup ==
    /\ pc = "lookup"
    /\ counts' = [counts EXCEPT !.lookup = @ + 1]
    /\ IF KeyRegistered(CallKey)
         THEN pc' = "instantiate" /\ UNCHANGED <<err, result>>
         ELSE Raise("UnsupportedSignature")
    /\ UNCHANGED <<inputVars, callVars, scratchVars, execVars, mallocs, frees>>

OrderArg_AlwaysC == "C"

\* order_arg = 'C' if order & ARRAY_C_ORDER else 'F'
OrderArg == IF "ARRAY_C_ORDER" \in order THEN "C" ELSE "F"

\* if out is None: out = np.empty(broadcast.shape, dtype=result_dtype, order=order_arg)
InstantiateLHS ==
    /\ pc = "instantiate"
    /\ IF out = NoArray
         THEN /\ out' = MkArray(ResultDtype(CallKey), bshape, OrderArg, 0)
              /\ counts' = [counts EXCEPT !.empty = @ + 1]
         ELSE UNCHANGED <<out, counts>>
    /\ pc' = "select"
    /\ UNCHANGED <<inputVars, err, result, order, bshape, ndim, any_broadcasting,
                   contig, function_pointer, scratchVars, execVars, mallocs, frees>>

\* contig = (order & ARRAYS_ARE_CONTIG) and not any_broadcasting
Contig(ord, anyb) == "ARRAYS_ARE_CONTIG" \in ord /\ ~anyb

Select_Aligned(ord, anyb) ==
    IF Contig(ord, anyb) /\ out.base % (2 * BaseOf(0)) = 0 THEN "contig"
    ELSE IF "ARRAYS_ARE_INNER_CONTIG" \in ord THEN "inner_contig"
    ELSE IF ord \cap {"ARRAYS_ARE_MIXED_CONTIG", "ARRAYS_ARE_MIXED_STRIDED"} # {}
      THEN "tiled"
    ELSE "strided"

Select_TiledFirst(ord, anyb) ==
    IF Contig(ord, anyb) THEN "contig"
    ELSE IF ord \cap {"ARRAYS_ARE_MIXED_CONTIG", "ARRAYS_ARE_MIXED_STRIDED"} # {}
      THEN "tiled"
    ELSE IF "ARRAYS_ARE_INNER_CONTIG" \in ord THEN "inner_contig"
    ELSE "strided"

\* the if/elif chain over contig, inner_contig, tiled
Select(ord, anyb) ==
    IF Contig(ord, anyb) THEN "contig"
    ELSE IF "ARRAYS_ARE_INNER_CONTIG" \in ord THEN "inner_contig"
    ELSE IF ord \cap {"ARRAYS_ARE_MIXED_CONTIG", "ARRAYS_ARE_MIXED_STRIDED"} # {}
      THEN "tiled"
    ELSE "strided"

SelectSpecialization ==
    /\ pc = "select"
    /\ any_broadcasting' = is_broadcasting(BroadcastArgs, bshape)
    /\ contig' = Contig(order, any_broadcasting')
    /\ function_pointer' = Select(order, any_broadcasting')
    /\ pc' = "run_ufunc"
    /\ UNCHANGED <<inputVars, err, result, order, bshape, ndim, out,
                   scratchVars, execVars, mallocs, frees, counts>>

-----------------------------------------------------------------------------
(* UFuncDispatcher.run_ufunc *)

NOps == Len(arrays)

\* broadcast_arrays: operand a's row of the stride buffer. Dimensions the
\* operand lacks and dimensions it declares with extent 1 get stride 0, the
\* others the operand's own stride.
PlanStrides(a, n) ==
    [d \in 1..n |->
        IF d <= n - Len(a.shape) THEN 0
        ELSE IF a.shape[d - (n - Len(a.shape))] = 1 THEN 0
        ELSE a.strides[d - (n - Len(a.shape))]]

\* arrays.insert(0, out); broadcast_arrays(arrays, broadcast.shape, ndim, ...)
BroadcastArrays ==
    /\ pc = "run_ufunc"
    /\ arrays' = <<out>> \o args
    /\ shape_p' = bshape
    /\ strides_p' = [j \in 1..Len(arrays') |-> PlanStrides(arrays'[j], ndim)]
    /\ mallocs' = [mallocs EXCEPT !["shape_p"] = @ + 1, !["strides_p"] = @ + 1]
    /\ pc' = "build_args"
    /\ UNCHANGED <<inputVars, err, result, callVars, data_pointers, strides_args,
                   execVars, frees, counts>>

\* build_dynamic_args(arrays, strides_p, &data_pointers, &strides_args, ndim):
\* it allocates the two pointer buffers, or fails allocating them. The call
\* stands before the try statement of run_ufunc.
BuildDynamicArgs ==
    /\ pc = "build_args"
    /\ \/ /\ data_pointers' = [j \in 1..NOps |-> arrays[j].base]
          /\ strides_args' = [j \in 1..NOps |-> 0]
          /\ mallocs' = [mallocs EXCEPT !["data_pointers"] = @ + 1,
                                        !["strides_args"] = @ + 1]
          /\ pc' = "collapse"
          /\ UNCHANGED <<err, result>>
       \/ /\ Raise("MemoryError")
          /\ UNCHANGED <<data_pointers, strides_args, mallocs>>
    /\ UNCHANGED <<inputVars, callVars, arrays, shape_p, strides_p, execVars,
                   frees, counts>>

\* if contig and ndim > 3: for i in range(3, ndim): shape_p[0] *= shape_p[i]
CollapseShape(shape, c, n) ==
    IF c /\ n > 3
      THEN [shape EXCEPT ![1] = shape[1] * Prod(SubSeq(shape, 4, n))]
      ELSE shape

Frame(nd, dl) ==
    [nd |-> nd, dl |-> dl, i |-> 0, ph |-> "entry",
     dp0 |-> data_pointers, so0 |-> strides_args]

\* the collapse, and the call of run_higher_dimensional(..., ndim, len(arrays), 0)
Collapse ==
    /\ pc = "collapse"
    /\ shape_p' = CollapseShape(shape_p, contig, ndim)
    /\ stack' = <<Frame(ndim, 0)>>
    /\ pc' = "exec"
    /\ UNCHANGED <<inputVars, err, result, callVars, arrays, strides_p,
                   data_pointers, strides_args, mallocs, frees, counts, lastLeaf,
                   visited, trace>>

\* run_ufunc has no return statement: it returns None, which __call__ hands on
RunUfuncReturn == NoArray

\* finally: stdlib.free of the four buffers; then the return, or the
\* exception going on to the caller of __call__
Finally ==
    /\ pc = "finally"
    /\ frees' = [b \in Scratch |-> frees[b] + 1]
    /\ result' = IF err = "none" THEN RunUfuncReturn ELSE result
    /\ pc' = "done"
    /\ UNCHANGED <<inputVars, err, callVars, scratchVars, execVars, mallocs, counts>>

-----------------------------------------------------------------------------
(* UFuncDispatcher.run_higher_dimensional *)

Top == stack[Len(stack)]

SetTop(f) == [stack EXCEPT ![Len(stack)] = f]

\* strides[j][d]: entry d of what the stride pointer of operand j points at
StrideAt(j, d) == strides_p[j][strides_args[j] + d + 1]

\* the loop indices of the enclosing activations, outermost first
Indices == [d \in 1..(Len(stack) - 1) |-> stack[d].i]

OffsetStrides_One(so, dl) == [j \in 1..Len(so) |-> so[j] + 1]

\* for j in range(n_ops): strides[j] += dim_level
OffsetStrides(so, dl) == [j \in 1..Len(so) |-> so[j] + dl]

ResetStrides_Skip(so, dl) == so

\* for j in range(n_ops): strides[j] -= dim_level
ResetStrides(so, dl) == [j \in 1..Len(so) |-> so[j] - dl]

\* for j in range(n_ops): data_pointers[j] += strides[j][dim_level]
AdvancePointers(dp, dl) == [j \in 1..Len(dp) |-> dp[j] + StrideAt(j, dl)]

RewindPointers_Once(dp, dl) == [j \in 1..Len(dp) |-> dp[j] - StrideAt(j, dl)]

\* for j in range(n_ops): data_pointers[j] -= shape[dim_level] * strides[j][dim_level]
RewindPointers(dp, dl) ==
    [j \in 1..Len(dp) |-> dp[j] - shape_p[dl + 1] * StrideAt(j, dl)]

\* The kernel processes the nd <= 2 dimensions it is handed.
KernelElements(dl, nd) == Prod(SubSeq(shape_p, dl + 1, dl + nd))

\* ndim <= 2: offset the stride pointers, invoke the kernel, reset the stride
\* pointers. The kernel returns 0, or -1 with an exception set, which leaves
\* the function at once.
\* What one kernel invocation is handed, without the addresses of the
\* buffers: the shape from the shape pointer on, each operand's data pointer
\* as an offset from its buffer, each operand's strides from its stride
\* pointer on.
KernelArgs(so) ==
    [shape |-> SubSeq(shape_p, Top.dl + 1, Len(shape_p)),
     offsets |-> [j \in 1..NOps |-> data_pointers[j] - arrays[j].base],
     strides |-> [j \in 1..NOps |->
                    SubSeq(strides_p[j], so[j] + 1, Len(strides_p[j]))]]

ExecLeaf ==
    /\ pc = "exec"
    /\ Top.ph = "entry"
    /\ Top.nd <= 2
    /\ \E ok \in BOOLEAN :
        LET so1 == OffsetStrides(strides_args, Top.dl) IN
        /\ counts' = [counts EXCEPT !.kernel = @ + 1]
        /\ lastLeaf' = [n |-> counts.kernel + 1, dl |-> Top.dl,
                        shape |-> SubSeq(shape_p, Top.dl + 1, Len(shape_p)),
                        dp |-> data_pointers, so |-> so1, idx |-> Indices,
                        ok |-> ok]
        /\ trace' = Append(trace, KernelArgs(so1))
        /\ IF ok
             THEN /\ visited' = visited + KernelElements(Top.dl, Top.nd)
                  /\ strides_args' = ResetStrides(so1, Top.dl)
                  /\ stack' = SetTop([Top EXCEPT !.ph = "ret"])
                  /\ UNCHANGED <<pc, err>>
             ELSE /\ strides_args' = so1
                  /\ err' = "KernelError"
                  /\ pc' = "unwind"
                  /\ UNCHANGED <<stack, visited>>
    /\ UNCHANGED <<inputVars, result, callVars, arrays, shape_p, strides_p,
                   data_pointers, mallocs, frees>>

\* ndim > 2, i < shape[dim_level]: the recursive call
ExecRecurse ==
    /\ pc = "exec"
    /\ Top.ph \in {"entry", "loop"}
    /\ Top.nd > 2
    /\ Top.i < shape_p[Top.dl + 1]
    /\ stack' = Append(SetTop([Top EXCEPT !.ph = "wait"]),
                       Frame(Top.nd - 1, Top.dl + 1))
    /\ UNCHANGED <<inputVars, pc, err, result, callVars, scratchVars, mallocs,
                   frees, counts, lastLeaf, visited, trace>>

\* ndim > 2, the loop is over: back up the data pointers
ExecRewind ==
    /\ pc = "exec"
    /\ Top.ph \in {"entry", "loop"}
    /\ Top.nd > 2
    /\ Top.i >= shape_p[Top.dl + 1]
    /\ data_pointers' = RewindPointers(data_pointers, Top.dl)
    /\ stack' = SetTop([Top EXCEPT !.ph = "ret"])
    /\ UNCHANGED <<inputVars, pc, err, result, callVars, arrays, shape_p,
                   strides_p, strides_args, mallocs, frees, counts, lastLeaf,
                   visited, trace>>

\* An activation returns: to the loop body of the enclosing activation, which
\* adds its stride to the data pointers and goes on with i + 1, or to run_ufunc.
ExecReturn ==
    /\ pc = "exec"
    /\ Top.ph = "ret"
    /\ IF Len(stack) = 1
         THEN /\ stack' = <<>>
              /\ pc' = "finally"
              /\ UNCHANGED data_pointers
         ELSE LET f == stack[Len(stack) - 1] IN
              /\ data_pointers' = AdvancePointers(data_pointers, f.dl)
              /\ stack' = [SubSeq(stack, 1, Len(stack) - 1) EXCEPT
                              ![Len(stack) - 1] = [f EXCEPT !.i = @ + 1, !.ph = "loop"]]
              /\ UNCHANGED pc
    /\ UNCHANGED <<inputVars, err, result, callVars, arrays, shape_p, strides_p,
                   strides_args, mallocs, frees, counts, lastLeaf, visited, trace>>

ExecUnwind_Restoring ==
    /\ pc = "unwind"
    /\ data_pointers' = Top.dp0
    /\ strides_args' = Top.so0
    /\ stack' = SubSeq(stack, 1, Len(stack) - 1)
    /\ pc' = IF Len(stack) = 1 THEN "finally" ELSE "unwind"
    /\ UNCHANGED <<inputVars, err, result, callVars, arrays, shape_p, strides_p,
                   mallocs, frees, counts, lastLeaf, visited, trace>>

\* The exception leaves an activation: nothing of the activation runs any more.
ExecUnwind ==
    /\ pc = "unwind"
    /\ stack' = SubSeq(stack, 1, Len(stack) - 1)
    /\ pc' = IF Len(stack) = 1 THEN "finally" ELSE "unwind"
    /\ UNCHANGED <<inputVars, err, result, callVars, scratchVars, mallocs, frees,
                   counts, lastLeaf, visited, trace>>

-----------------------------------------------------------------------------

Next ==
    \/ CheckArity
    \/ Broadcast
    \/ Lookup
    \/ InstantiateLHS
    \/ SelectSpecialization
    \/ BroadcastArrays
    \/ BuildDynamicArgs
    \/ Collapse
    \/ ExecLeaf
    \/ ExecRecurse
    \/ ExecRewind
    \/ ExecReturn
    \/ ExecUnwind
    \/ Finally

Spec == Init /\ [][Next]_vars

-----------------------------------------------------------------------------
(* The selection of the specialization, lines 103-127, over every value the
   ordering bit mask can take *)

SelectNdim == 1

OrderFlags ==
    {"ARRAY_C_ORDER", "ARRAY_F_ORDER", "ARRAYS_ARE_CONTIG",
     "ARRAYS_ARE_INNER_CONTIG", "ARRAYS_ARE_MIXED_CONTIG",
     "ARRAYS_ARE_MIXED_STRIDED"}

\* The call stands before line 103: arity, broadcast and lookup have passed,
\* the output is instantiated, and order holds any combination of the flags.
SelectInit ==
    \E ord \in SUBSET OrderFlags, fs \in {s \in Shapes : Len(s) <= SelectNdim} :
      \E as \in ArgLists(fs), o \in OutArrays(fs) :
        LET bas == IF o = NoArray THEN as ELSE Append(as, o)
            key == Key(ArgTypes(as), BroadcastNd(bas))
        IN
        /\ BroadcastOk(bas)
        /\ KeyRegistered(key)
        /\ nin = Len(as)
        /\ args = as
        /\ kwout = o
        /\ pc = "select"
        /\ err = "none"
        /\ result = NoArray
        /\ order = ord
        /\ bshape = BroadcastShape(bas)
        /\ ndim = BroadcastNd(bas)
        /\ out = IF o # NoArray THEN o
                 ELSE MkArray(ResultDtype(key), BroadcastShape(bas),
                              IF "ARRAY_C_ORDER" \in ord THEN "C" ELSE "F", 0)
        /\ any_broadcasting = FALSE
        /\ contig = FALSE
        /\ function_pointer = "none"
        /\ arrays = <<>>
        /\ shape_p = <<>>
        /\ strides_p = <<>>
        /\ data_pointers = <<>>
        /\ strides_args = <<>>
        /\ mallocs = [b \in Scratch |-> 0]
        /\ frees = [b \in Scratch |-> 0]
        /\ stack = <<>>
        /\ counts = [broadcast |-> 1, lookup |-> 1,
                     empty |-> IF o = NoArray THEN 1 ELSE 0, kernel |-> 0]
        /\ lastLeaf = NoLeaf
        /\ visited = 0
        /\ trace = <<>>
        /\ prev = NoPrev

SelectNext == SelectSpecialization

SelectSpec == SelectInit /\ [][SelectNext]_vars

-----------------------------------------------------------------------------
(* Two calls of one dispatcher *)

\* a fresh buffer of the shape, dtype and layout of o
FreshLike(o) == [o EXCEPT !.base = BaseOf(3)]

\* After a call with an explicit output has returned, the caller calls the
\* same dispatcher again with the same inputs and a fresh output of the same
\* shape and layout. self.nin and self.functions are all that lives on in
\* the dispatcher; the locals and the scratch buffers of the first call are
\* gone.
CallAgain ==
    /\ pc = "done"
    /\ err = "none"
    /\ kwout # NoArray
    /\ ~prev.set
    /\ prev' = [set |-> TRUE, function_pointer |-> function_pointer,
                trace |-> trace, visited |-> visited]
    /\ kwout' = FreshLike(kwout)
    /\ pc' = "call"
    /\ result' = NoArray
    /\ order' = {}
    /\ bshape' = <<>>
    /\ ndim' = 0
    /\ out' = NoArray
    /\ any_broadcasting' = FALSE
    /\ contig' = FALSE
    /\ function_pointer' = "none"
    /\ arrays' = <<>>
    /\ shape_p' = <<>>
    /\ strides_p' = <<>>
    /\ data_pointers' = <<>>
    /\ strides_args' = <<>>
    /\ mallocs' = [b \in Scratch |-> 0]
    /\ frees' = [b \in Scratch |-> 0]
    /\ stack' = <<>>
    /\ counts' = [broadcast |-> 0, lookup |-> 0, empty |-> 0, kernel |-> 0]
    /\ lastLeaf' = NoLeaf
    /\ visited' = 0
    /\ trace' = <<>>
    /\ UNCHANGED <<nin, args, err>>

NextTwice == Next \/ CallAgain

SpecTwice == Init /\ [][NextTwice]_vars

-----------------------------------------------------------------------------
(* Properties *)

NoScratch == \A b \in Scratch : mallocs[b] = 0

Collapsed == contig /\ ndim > 3

RECURSIVE Dot(_, _)
Dot(idx, row) ==
    IF idx = <<>> THEN 0 ELSE Head(idx) * Head(row) + Dot(Tail(idx), Tail(row))

\* C1: a dispatch call that completes without error returns the output
\* buffer, the caller's or the newly allocated one, never None.
C1_ReturnsOutput ==
    (pc = "done" /\ err = "none") => (result = out /\ result # NoArray)

\* C2: at every kernel invocation made without dimension collapsing, each
\* operand's data pointer is its base pointer plus the sum over the enclosing
\* dimensions d of index[d] * stride[d][operand].
C2_LeafAddress ==
    (lastLeaf.n > 0 /\ ~Collapsed) =>
        \A j \in 1..NOps :
            lastLeaf.dp[j] = arrays[j].base + Dot(lastLeaf.idx, strides_p[j])

\* a kernel invocation under two enclosing loops, both past their first
\* iteration, with an operand moved off its base and an operand of stride 0
C2_Witness ==
    /\ lastLeaf.n > 0
    /\ ~Collapsed
    /\ lastLeaf.idx = <<1, 1>>
    /\ \E j \in 1..NOps : lastLeaf.dp[j] # arrays[j].base
    /\ \E j \in 1..NOps : strides_p[j][1] = 0

\* C3 as stated: when a kernel failure leaves a level of the executor, every
\* operand's data pointer and stride pointer have the values they had when
\* that level was entered.
C3_RestoredOnError ==
    pc = "unwind" => (data_pointers = Top.dp0 /\ strides_args = Top.so0)

\* C3 as amended: a kernel failure ends the execution at once, no further
\* kernel invocation follows and the call ends with the kernel's error; the
\* rewind and the undo of the stride-pointer offset do not run, so the data
\* pointers and stride pointers keep the values of the failing invocation
\* until run_ufunc frees the buffers that hold them.
C3_FailurePropagates ==
    err = "KernelError" =>
        /\ pc \in {"unwind", "finally", "done"}
        /\ ~lastLeaf.ok
        /\ lastLeaf.n = counts.kernel
        /\ data_pointers = lastLeaf.dp
        /\ strides_args = lastLeaf.so
        /\ (pc = "done" => \A b \in Scratch : frees[b] = 1)

\* the failure leaves an enclosing level whose data pointers and stride
\* pointers both differ from their values at entry
C3_Witness ==
    /\ pc = "unwind"
    /\ Top.ph = "wait"
    /\ data_pointers # Top.dp0
    /\ strides_args # Top.so0

\* C4: every scratch buffer the call allocated is released exactly once
\* before the call returns, on every exit path.
C4_ScratchReleased ==
    pc = "done" => \A b \in Scratch : frees[b] = mallocs[b]

\* operand a has the unified shape and, wherever the extent is above 1, the
\* strides st
MatchesUnified(a, st) ==
    /\ a.shape = bshape
    /\ \A d \in 1..ndim : bshape[d] > 1 => a.strides[d] = st[d]

\* every operand of the call, the output included, has the row-major strides
\* of the unified shape, or every operand the column-major ones
AllContiguous ==
    \/ \A a \in Ops(<<out>> \o args) :
          MatchesUnified(a, CStrides(bshape, ItemSize(a.dtype)))
    \/ \A a \in Ops(<<out>> \o args) :
          MatchesUnified(a, FStrides(bshape, ItemSize(a.dtype)))

\* C5: the contiguous variant is selected only when every operand, the output
\* included, has the contiguous strides of the unified shape (all row-major
\* or all column-major) and none is broadcast.
C5_ContigOnlyIfAllContiguous ==
    (function_pointer = "contig" /\ Prod(bshape) > 0) => AllContiguous

\* C6: with the contiguous variant, operands that are all contiguous and more
\* than 3 dimensions, the execution over the collapsed shape visits as many
\* elements as the unified shape has and hands the kernel no address outside
\* an operand's buffer.
C6_CollapseVisitsShape ==
    (Collapsed /\ function_pointer = "contig" /\ AllContiguous) =>
        /\ (pc = "done" /\ err = "none") => visited = Prod(bshape)
        /\ (lastLeaf.n > 0 /\ Prod(bshape) > 0) =>
              \A j \in 1..NOps :
                  lastLeaf.dp[j] < arrays[j].base
                                     + Prod(bshape) * ItemSize(arrays[j].dtype)

\* C7: a call with another number of positional operands than the registered
\* arity fails with ArityError, and nothing was broadcast, looked up,
\* allocated or invoked in it.
C7_ArityError ==
    (Len(args) # nin /\ pc # "call") =>
        /\ pc = "done"
        /\ err = "ArityError"
        /\ result = NoArray
        /\ counts = [broadcast |-> 0, lookup |-> 0, empty |-> 0, kernel |-> 0]
        /\ out = NoArray
        /\ NoScratch

\* one operand given to an operation registered with two
C7_Witness ==
    pc = "done" /\ err = "ArityError" /\ Len(args) = 1 /\ nin = 2

\* C8: with no bundle under exactly (input dtypes, broadcast dimensionality),
\* the call fails with UnsupportedSignature after the broadcast succeeded; no
\* output is allocated, no kernel runs, and no bundle of another dtype tuple
\* or dimensionality is used instead.
C8_UnsupportedSignature ==
    /\ (/\ pc \in {"instantiate", "done"}
        /\ Len(args) = nin
        /\ BroadcastOk(BroadcastArgs)
        /\ [types |-> ArgTypes(args), nd |-> BroadcastNd(BroadcastArgs)]
              \notin Functions)
       => /\ pc = "done"
          /\ err = "UnsupportedSignature"
          /\ result = NoArray
          /\ counts = [broadcast |-> 1, lookup |-> 1, empty |-> 0, kernel |-> 0]
          /\ out = kwout
          /\ function_pointer = "none"
          /\ NoScratch
    /\ err = "UnsupportedSignature" =>
          /\ [types |-> ArgTypes(args), nd |-> ndim] \notin Functions
          /\ counts.broadcast = 1
          /\ Len(bshape) = ndim

\* the call fails although the table holds the same dtypes at another
\* dimensionality, and the caller had supplied an output
C8_Witness ==
    /\ err = "UnsupportedSignature"
    /\ kwout # NoArray
    /\ \E k \in Functions : k.types = ArgTypes(args) /\ k.nd # ndim

\* the extents above 1 that the operands declare in the t-th dimension from
\* the right
LargeExtents(as, t) ==
    {as[k].shape[Len(as[k].shape) - t + 1] :
        k \in {i \in 1..Len(as) : t <= Len(as[i].shape)}} \ {0, 1}

\* two operands declare differing extents, both greater than 1, in the same
\* trailing-aligned dimension
Mismatch(as) == \E t \in 1..MaxNdim : Cardinality(LargeExtents(as, t)) > 1

\* C9: if two operands (the supplied output among them) mismatch, the call
\* fails with ShapeMismatch before any table lookup, output allocation or
\* kernel invocation: it never gets to the lookup, and it ends so.
C9_ShapeMismatch ==
    (pc \in {"lookup", "done"} /\ Len(args) = nin /\ Mismatch(BroadcastArgs)) =>
        /\ pc = "done"
        /\ err = "ShapeMismatch"
        /\ result = NoArray
        /\ counts = [broadcast |-> 1, lookup |-> 0, empty |-> 0, kernel |-> 0]
        /\ out = kwout
        /\ NoScratch

\* a two-dimensional input and a supplied output that mismatch
C9_Witness ==
    /\ err = "ShapeMismatch"
    /\ Len(args) = 1
    /\ Len(args[1].shape) = 2
    /\ Mismatch(<<args[1], kwout>>)

\* broadcast_arrays has just built the plan
Planned == pc = "build_args"

PadOf(j) == ndim - Len(arrays[j].shape)

\* C10 as stated: the unified shape is the per-dimension maximum declared
\* extent, every stride row has ndim entries, and a planned stride is 0
\* exactly when the operand's declared or padded extent there is 1.
C10_PlanAsStated ==
    Planned =>
        /\ Len(shape_p) = ndim
        /\ \A d \in 1..ndim : shape_p[d] = Max(DimExtents(arrays, d))
        /\ \A j \in 1..NOps :
              /\ Len(strides_p[j]) = ndim
              /\ \A d \in 1..ndim :
                    strides_p[j][d] = 0 <=> PadShape(arrays[j].shape, ndim)[d] = 1

\* C10 as amended: the unified extent is the one extent other than 1 that is
\* declared in the dimension (1 if there is none), which is the maximum
\* unless an operand declares extent 0; every stride row has ndim entries,
\* the missing leading dimensions with stride 0; and a planned stride is 0
\* exactly when the operand's declared or padded extent there is 1 or the
\* operand's own stride there is 0.
C10_Plan ==
    Planned =>
        /\ Len(shape_p) = ndim
        /\ ndim = Max({Len(arrays[j].shape) : j \in 1..NOps})
        /\ \A d \in 1..ndim :
              /\ shape_p[d] \in DimExtents(arrays, d)
              /\ \A e \in DimExtents(arrays, d) : e \in {1, shape_p[d]}
              /\ 0 \notin DimExtents(arrays, d) =>
                    shape_p[d] = Max(DimExtents(arrays, d))
        /\ \A j \in 1..NOps :
              /\ Len(strides_p[j]) = ndim
              /\ \A d \in 1..ndim :
                    /\ d <= PadOf(j) => strides_p[j][d] = 0
                    /\ strides_p[j][d] = 0 <=>
                          \/ PadShape(arrays[j].shape, ndim)[d] = 1
                          \/ (d > PadOf(j) /\ arrays[j].strides[d - PadOf(j)] = 0)

\* three operands planned: one with fewer dimensions than the unified shape,
\* one with extent 1 where the unified extent is larger
C10_Witness ==
    /\ Planned
    /\ NOps = 3
    /\ \E j \in 1..NOps : PadOf(j) > 0
    /\ \E j \in 1..NOps : \E d \in 1..ndim :
          d > PadOf(j) /\ arrays[j].shape[d - PadOf(j)] = 1 /\ shape_p[d] > 1

\* C12: when every kernel invocation succeeds, on return from the executor at
\* any recursion depth every operand's data pointer and stride pointer equal
\* the values they had on entry to that depth.
C12_RestoredOnReturn ==
    (pc = "exec" /\ Top.ph = "ret") =>
        (data_pointers = Top.dp0 /\ strides_args = Top.so0)

\* a nested activation returns after its loop ran over a dimension in which
\* an operand has a stride other than 0
C12_Witness ==
    /\ pc = "exec"
    /\ Len(stack) >= 2
    /\ Top.ph = "ret"
    /\ Top.nd > 2
    /\ Top.i > 1
    /\ \E j \in 1..NOps : StrideAt(j, Top.dl) # 0

\* the number of dimensions the executor loops over itself
Enclosing == IF ndim > 2 THEN ndim - 2 ELSE 0

\* the k-th index tuple (k from 0) over the extents exts in lexicographic
\* order, the first extent slowest
Unrank(k, exts) ==
    [d \in 1..Len(exts) |->
        (k \div Prod(SubSeq(exts, d + 1, Len(exts)))) % exts[d]]

\* C13: the n-th kernel invocation is made at the n-th index tuple of the
\* ndim - 2 enclosing dimensions in lexicographic order, with the shape
\* pointer and every stride pointer offset by ndim - 2 entries (no offset for
\* ndim <= 2) and every data pointer at its fully indexed address; a run whose
\* invocations all succeed makes one invocation per index tuple.
C13_InvocationOrder ==
    /\ lastLeaf.n > 0 =>
          /\ lastLeaf.n = counts.kernel
          /\ lastLeaf.dl = Enclosing
          /\ lastLeaf.idx = Unrank(lastLeaf.n - 1, SubSeq(shape_p, 1, Enclosing))
          /\ lastLeaf.shape = SubSeq(shape_p, Enclosing + 1, ndim)
          /\ \A j \in 1..NOps :
                /\ lastLeaf.so[j] = Enclosing
                /\ lastLeaf.dp[j]
                     = arrays[j].base + Dot(lastLeaf.idx, strides_p[j])
    /\ (pc \in {"finally", "done"} /\ err = "none") =>
          counts.kernel = Prod(SubSeq(shape_p, 1, Enclosing))

\* a four-dimensional call has returned after four invocations, the last at
\* index tuple (1, 1)
C13_Witness ==
    /\ pc = "done"
    /\ err = "none"
    /\ ndim = 4
    /\ ~Collapsed
    /\ counts.kernel = 4
    /\ lastLeaf.idx = <<1, 1>>
    /\ \E j \in 1..NOps : lastLeaf.dp[j] # arrays[j].base

\* the call is past the point where the output is instantiated
PastInstantiate == pc \notin {"call", "broadcast", "lookup", "instantiate"}

\* the table lookup was made and found the key
LookupSucceeded == counts.lookup = 1 /\ err # "UnsupportedSignature"

\* the strides np.empty gives the unified shape: row-major when the ordering
\* has the C-order flag, column-major otherwise
EmptyStrides ==
    IF "ARRAY_C_ORDER" \in order
      THEN CStrides(bshape, ItemSize(ResultDtype(CallKey)))
      ELSE FStrides(bshape, ItemSize(ResultDtype(CallKey)))

\* C15: the output is allocated if and only if the caller supplied none and
\* the lookup succeeded, at most once, with the unified shape, the bundle's
\* result dtype and row-major layout under the C-order flag, column-major
\* otherwise; a supplied output is used as it is; either way the output is
\* operand 0 of every kernel invocation and the inputs follow in their order.
C15_OutputInstantiation ==
    /\ counts.empty <= 1
    /\ PastInstantiate =>
          /\ counts.empty = 1 <=> (kwout = NoArray /\ LookupSucceeded)
          /\ counts.empty = 1 =>
                /\ out.dtype = ResultDtype(CallKey)
                /\ out.shape = bshape
                /\ out.strides = EmptyStrides
          /\ (kwout # NoArray /\ counts.broadcast = 1) => out = kwout
    /\ (pc = "build_args" \/ (pc = "exec" /\ Top.ph = "ret")) =>
          /\ arrays = <<out>> \o args
          /\ strides_p[1] = PlanStrides(out, ndim)
    /\ (pc = "exec" /\ Top.ph = "ret" /\ Top.nd <= 2) =>
          /\ lastLeaf.dp[1] = out.base + Dot(lastLeaf.idx, strides_p[1])
          /\ \A k \in 1..Len(args) :
                lastLeaf.dp[k + 1]
                  = args[k].base + Dot(lastLeaf.idx, strides_p[k + 1])

\* the kernel has run on an output allocated column-major, whose strides are
\* not the row-major ones
C15_Witness ==
    /\ pc = "exec"
    /\ Top.ph = "ret"
    /\ Top.nd <= 2
    /\ counts.empty = 1
    /\ "ARRAY_C_ORDER" \notin order
    /\ out.strides # CStrides(bshape, ItemSize(out.dtype))
    /\ Len(args) = 2

\* C16: in every call that reaches kernel execution the output's planned
\* stride vector has no stride-0 dimension whose unified extent exceeds 1, so
\* distinct index tuples of the unified shape map to distinct output
\* addresses; a caller-supplied output included.
C16_OutputInjective ==
    (pc = "exec" /\ lastLeaf.n > 0) =>
        \A d \in 1..ndim : bshape[d] > 1 => strides_p[1][d] # 0

Variants == {"contig", "inner_contig", "tiled", "strided"}

\* C14: for every combination of the layout flags and of broadcasting the
\* selection does not fail and picks one of the four variants: contig exactly
\* when flagged contiguous with no operand broadcasting; inner_contig exactly
\* when not so and flagged inner-contiguous; tiled exactly when neither and
\* flagged mixed-contiguous or mixed-strided; strided exactly when none.
C14_SelectionPriority ==
    pc = "run_ufunc" =>
        LET c == "ARRAYS_ARE_CONTIG" \in order /\ ~any_broadcasting
            i == "ARRAYS_ARE_INNER_CONTIG" \in order
            t == \/ "ARRAYS_ARE_MIXED_CONTIG" \in order
                 \/ "ARRAYS_ARE_MIXED_STRIDED" \in order
        IN  /\ err = "none"
            /\ function_pointer \in Variants
            /\ contig = c
            /\ function_pointer = "contig" <=> c
            /\ function_pointer = "inner_contig" <=> (~c /\ i)
            /\ function_pointer = "tiled" <=> (~c /\ ~i /\ t)
            /\ function_pointer = "strided" <=> (~c /\ ~i /\ ~t)

\* flagged contiguous, inner-contiguous and mixed at once while an operand is
\* broadcasting: the inner-contiguous variant is picked
C14_Witness ==
    /\ pc = "run_ufunc"
    /\ {"ARRAYS_ARE_CONTIG", "ARRAYS_ARE_INNER_CONTIG",
        "ARRAYS_ARE_MIXED_STRIDED"} \subseteq order
    /\ any_broadcasting
    /\ function_pointer = "inner_contig"

\* C11: a second call with the same inputs, the same table and a fresh
\* explicit output of the same shape and layout selects the variant the first
\* call selected and hands the kernel the same sequence of shape, relative
\* data offsets and strides, so that a second call that returns has processed
\* what the first one did.
C11_SameDispatch ==
    prev.set =>
        /\ function_pointer \in {"none", prev.function_pointer}
        /\ (pc \in {"exec", "unwind"} /\ lastLeaf.n > 0) =>
              /\ Len(trace) = lastLeaf.n
              /\ Len(trace) <= Len(prev.trace)
              /\ trace[Len(trace)] = prev.trace[Len(trace)]
        /\ (pc = "done" /\ err = "none") =>
              /\ trace = prev.trace
              /\ visited = prev.visited

\* the second call has returned after four kernel invocations on an output
\* at another address than the first call's
C11_Witness ==
    /\ prev.set
    /\ pc = "done"
    /\ err = "none"
    /\ Len(prev.trace) = 4
    /\ trace = prev.trace
    /\ out.base # BaseOf(0)
    /\ \E j \in 1..NOps : trace[4].offsets[j] # 0

=============================================================================
